---------------------------- MODULE Spec2Model ----------------------------
(***************************************************************************)
(* Model of the sandboxed code-execution service of JSRunner:              *)
(* POST /api/execute of server/routes.ts (src/unnamed/part_011), the       *)
(* console / timer shims it places in the vm2 sandbox, the Node event      *)
(* loop that runs the shim's host timers, and the console-entry store;    *)
(* POST /api/challenges/:id/validate with its per-test-case sandboxes and  *)
(* the progress write; and the source normalizer of the execute handler.   *)
(*                                                                         *)
(* JavaScript values are encoded as tagged strings ("n:2", "s:Fizz", ...)  *)
(* so that every value of the evaluated language is comparable in TLC.     *)
(***************************************************************************)
EXTENDS Integers, Sequences, FiniteSets, TLC

(***************************************************************************)
(* Bounds of the model.                                                    *)
(***************************************************************************)
MaxOps == 2         \* top-level statements of a submitted script
MaxTime == 12000    \* the host clock stops advancing here (ms)
MaxCases == 2       \* test cases of a challenge
MaxLen == 4         \* characters of a source text handed to the normalizer
MaxProbe == 2         \* identifiers and timer-shim calls evaluated against a sandbox object
MaxCallers == 2       \* concurrent createOrUpdateChallengeProgress calls
MaxRuns == 3          \* invocations of runCode on the Home page
MaxEdits == 2         \* changes of the editor's text

(***************************************************************************)
(* Program constants.                                                      *)
(***************************************************************************)
EXEC_TIMEOUT == 5000     \* new vm.VM({ timeout: 5000, ... })
EXEC_MAX_DELAY == 5000   \* if (delay > 5000) delay = 5000
TEST_TIMEOUT == 2000     \* new vm.VM({ timeout: 2000, ... }) of the validator
TEST_MAX_DELAY == 1000   \* if (delay > 1000) delay = 1000

(***************************************************************************)
(* Values of the evaluated language.                                       *)
(***************************************************************************)
Undefined == "undefined"
Null == "null"
N2 == "n:2"                \* the number 2
SFizz == "s:Fizz"          \* the string "Fizz"
ObjA == "o:a1"             \* the object {a: 1}
ErrBoom == "e:boom"        \* new Error("boom")
ErrType == "e:type"        \* a TypeError raised by the interpreter
ErrSyntax == "e:syntax"    \* a SyntaxError raised when the script is compiled
ErrTimeout == "e:timeout"  \* the error vm2 raises when the timeout elapses
ErrVM == "e:vm"            \* the error the constructor of vm.VM throws
None == "none"             \* absence of a value in the model (not a JS value)

ErrorObjects == {ErrBoom, ErrType, ErrSyntax, ErrTimeout, ErrVM}
JSValues == {Undefined, Null, N2, SFizz, ObjA} \cup ErrorObjects

\* typeof v
TypeOf(v) ==
  CASE v = Undefined -> "undefined"
    [] v = N2 -> "number"
    [] v = SFizz -> "string"
    [] OTHER -> "object"

\* String(v)
String(v) ==
  CASE v = Undefined -> "undefined"
    [] v = Null -> "null"
    [] v = N2 -> "2"
    [] v = SFizz -> "Fizz"
    [] v = ObjA -> "[object Object]"
    [] v = ErrBoom -> "Error: boom"
    [] v = ErrType -> "TypeError: x is not a function"
    [] v = ErrSyntax -> "SyntaxError: Unexpected token"
    [] v = ErrTimeout -> "Error: Script execution timed out after 5000ms"
    [] v = ErrVM -> "VMError: Invalid sandbox"

\* JSON.stringify(v, null, 2); the result is the JS value undefined for undefined
JSONstringify(v) ==
  CASE v = Undefined -> "undefined"
    [] v = Null -> "null"
    [] v = N2 -> "2"
    [] v = SFizz -> "\"Fizz\""
    [] v = ObjA -> "{\n  \"a\": 1\n}"
    [] OTHER -> "{}"

\* err.name, err.message, err.stack read on a non-nullish value
ErrName(v) ==
  CASE v = ErrBoom -> "Error"
    [] v = ErrType -> "TypeError"
    [] v = ErrSyntax -> "SyntaxError"
    [] v = ErrTimeout -> "Error"
    [] v = ErrVM -> "VMError"
    [] OTHER -> Undefined

ErrMessage(v) ==
  CASE v = ErrBoom -> "boom"
    [] v = ErrType -> "x is not a function"
    [] v = ErrSyntax -> "Unexpected token"
    [] v = ErrTimeout -> "Script execution timed out after 5000ms"
    [] v = ErrVM -> "Invalid sandbox"
    [] OTHER -> Undefined

ErrStack(v) == IF v \in ErrorObjects THEN String(v) \o "\n    at vm.js" ELSE Undefined

\* reading a property of null or undefined throws a TypeError in the host
Nullish(v) == v \in {Undefined, Null}


\* a || b for the string-or-undefined operands the handlers use
OrElse(a, b) == IF a \in {Undefined, ""} THEN b ELSE a

\* if (snippetId): undefined and 0 are falsy
Truthy(id) == id \notin {Undefined, "0"}

(***************************************************************************)
(* Submitted scripts.  A script is a sequence of statements followed by    *)
(* its completion value, the value vm2.run(code) returns.                  *)
(***************************************************************************)
MkOp(op, kind, args, delay, body, val) ==
  [op |-> op, kind |-> kind, args |-> args, delay |-> delay, body |-> body, val |-> val]

ConsoleOp(kind, args) == MkOp("console", kind, args, 0, <<>>, None)
ThrowOp(v) == MkOp("throw", None, <<>>, 0, <<>>, v)
SettleOp(how, v) == MkOp("settle", how, <<>>, 0, <<>>, v)
TimeoutOp(delay, body) == MkOp("setTimeout", None, <<>>, delay, body, None)
BusyOp(ms) == MkOp("busy", None, <<>>, ms, <<>>, None)
LoopOp == MkOp("loop", None, <<>>, 0, <<>>, None)

\* synchronous computation a statement may take (ms)
BusyTimes == {3000}

\* setTimeout calls of a script: setTimeout(function, delay in ms); 6000 exceeds the cap
TimeoutOps ==
  { TimeoutOp(1000, <<ConsoleOp("log", <<SFizz>>)>>),
    TimeoutOp(6000, <<ThrowOp(ErrBoom)>>),
    TimeoutOp(1000, <<ThrowOp(Null)>>),
    TimeoutOp(1000, <<SettleOp("resolve", N2)>>) }

Statements ==
  { ConsoleOp("log", <<N2>>),
    ConsoleOp("warn", <<ObjA, SFizz>>),
    ConsoleOp("error", <<Null>>),
    ConsoleOp("info", <<Undefined>>),
    ConsoleOp("table", <<SFizz>>),
    ThrowOp(ErrBoom), ThrowOp(ErrSyntax), ThrowOp(SFizz), ThrowOp(Null),
    LoopOp }
  \cup { BusyOp(ms) : ms \in BusyTimes }
  \cup TimeoutOps

\* what the script evaluates to: a plain value, or a promise in one of its states
MkCompletion(kind, state, v) == [kind |-> kind, state |-> state, v |-> v]

Completions ==
  { MkCompletion("value", "fulfilled", Undefined),
    MkCompletion("value", "fulfilled", N2),
    MkCompletion("promise", "fulfilled", SFizz),
    MkCompletion("promise", "rejected", ErrType),
    MkCompletion("promise", "rejected", Null),
    MkCompletion("promise", "pending", Undefined) }

SeqsUpTo(S, n) == UNION { [1..k -> S] : k \in 0..n }

Scripts == { [ops |-> o, completion |-> c] : o \in SeqsUpTo(Statements, MaxOps), c \in Completions }

\* a request body whose code field is not a string
NotString == [ops |-> <<>>, completion |-> MkCompletion("notstring", "fulfilled", Undefined)]

SnippetIds == {Undefined, "7"}


(***************************************************************************)
(* State.                                                                  *)
(***************************************************************************)
Reqs == {1, 2}

VARIABLES
  now,        \* host clock, Date.now() (ms)
  host,       \* "up", or "crashed" after an uncaught exception / unhandled rejection
  req,        \* req[r]: the body of request r, {code, snippetId}
  pc,         \* pc[r]: position of the handler of request r
  logs, errors, warnings, infos,   \* the four arrays of the handler invocation
  result,     \* let result
  error,      \* let error = null
  startTime,  \* const startTime = Date.now()
  promise,    \* state of the value the handler awaits
  response,   \* what res.json / res.status(..).json sent
  timers,     \* host timers created by the setTimeout shim, in creation order
  inflight,   \* storage.createConsoleEntry calls whose insert has not run yet
  store,      \* rows of the console_entries table
  nextId,     \* the serial of console_entries.id
  calls,      \* history: console-shim calls made by the code of run r, in call order
  raised,     \* history: the value the run of r threw or rejected with
  outcome,    \* history: engine state of run r
  invoked,    \* history: timer callbacks invoked, with the time of the invocation
  forwarded,  \* history: storage.createConsoleEntry calls made for run r, in call order
  failedFor,  \* history: the snippet ids for which a storage call has failed
  crashedBy   \* history: what brought the host down: "handler", "callback" or "storage"

\* POST /api/challenges/:id/validate
VARIABLES
  vreq,          \* the validate request: {id, code}
  testCases,     \* challenge.testCases of the stored challenge
  vpc,           \* position of the validate handler
  caseNo,        \* the test case the for loop is at
  sandboxes,     \* sandboxes[i]: the arrays and the awaited promise of test case i
  results,       \* const results = []
  allPassed,     \* let allPassed = true
  vresponse,     \* what the validate handler sent
  progress,      \* rows of the challenge_progress table
  decided,       \* history: what the comparison of test case i read
  progressCalls  \* history: storage.createOrUpdateChallengeProgress calls and how they ended

\* the source normalizer of POST /api/execute, applied to a source text
VARIABLES
  source,        \* req.body.code, a sequence of characters
  normalized,    \* code after the normalization
  npc            \* position of the normalization

\* the sandbox object of a handler, as evaluated code meets it
VARIABLES
  handler,       \* the handler whose sandbox object the code runs against
  probe,         \* what the code evaluates: identifiers and setTimeout(fn, delay) calls
  at,            \* how many of them it has evaluated
  reached,       \* the global names that resolved to a binding
  refused,       \* the global names that raised a ReferenceError
  scheduled,     \* the host timers the timer shim created
  faults         \* the errors raised to the code

\* the construction of the interpreter
VARIABLES
  broken         \* the runs for which `new vm.VM(...)` throws

\* createOrUpdateChallengeProgress calls of concurrent requests
VARIABLES
  callers        \* callers[c]: position of call c and the row its read returned

\* the Home page of the client
VARIABLES
  editorCode,    \* const [code, setCode] of Home: the editor's text, by version
  consoleOutput, \* const [consoleOutput, setConsoleOutput]
  isExecuting,   \* const [isExecuting, setIsExecuting]
  autoRunTimer,  \* autoRunTimerRef.current: the debounce timer is pending
  runs           \* runs[k]: invocation k of runCode and its request

vvars == <<vreq, testCases, vpc, caseNo, sandboxes, results, allPassed, vresponse, progress,
           decided, progressCalls>>

nvars == <<source, normalized, npc>>

sbvars == <<handler, probe, at, reached, refused, scheduled, faults>>

hvars == <<editorCode, consoleOutput, isExecuting, autoRunTimer, runs>>

restvars == <<broken, callers, hvars>>

\* the variables neither handler's request processing touches
ovars == <<nvars, sbvars, restvars>>

\* the variables only the execute handler and the console-entry store use
evars == <<req, pc, logs, errors, warnings, infos, result, error, startTime, promise, response,
           inflight, store, nextId, calls, raised, outcome, invoked, forwarded, failedFor,
           crashedBy>>

vars == <<now, host, req, pc, logs, errors, warnings, infos, result, error, startTime,
          promise, response, timers, inflight, store, nextId, calls, raised, outcome, invoked,
          forwarded, failedFor, crashedBy, vvars, ovars>>

\* let error: any = null
NullError == [name |-> None, message |-> None, stack |-> None]

NoResponse ==
  [status |-> 0, message |-> None, result |-> None, logs |-> <<>>, errors |-> <<>>,
   warnings |-> <<>>, infos |-> <<>>, error |-> NullError, executionTime |-> 0]


(***************************************************************************)
(* The sandbox of the execute handler.  A frame holds what the closures of *)
(* one handler invocation reach: the four arrays, and what a piece of      *)
(* sandboxed code did to the host while it ran.                            *)
(***************************************************************************)
NewFrame(l, e, w, i, p, c) ==
  [logs |-> l, errors |-> e, warnings |-> w, infos |-> i,
   fwd |-> <<>>,         \* storage.createConsoleEntry calls issued
   newTimers |-> <<>>,   \* host timers created
   elapsed |-> 0,        \* time the code has been running (ms)
   thrown |-> None,      \* the value the code threw, if it did
   promise |-> p,        \* the promise the script returned
   calls |-> c]

\* args.map(arg => typeof arg === 'object' ? JSON.stringify(arg, null, 2) : String(arg))
RenderArg(arg) == IF TypeOf(arg) = "object" THEN JSONstringify(arg) ELSE String(arg)

\* .join(' ')
RECURSIVE JoinArgs(_)
JoinArgs(args) ==
  IF args = <<>> THEN ""
  ELSE IF Len(args) = 1 THEN RenderArg(args[1])
  ELSE RenderArg(args[1]) \o " " \o JoinArgs(Tail(args))

\* the text a console-shim call captures
ConsoleContent(kind, args) ==
  IF kind = "table"
    THEN "Table: " \o JSONstringify(IF args = <<>> THEN Undefined ELSE args[1])
    ELSE JoinArgs(args)

\* the type under which the call is forwarded to storage
ConsoleType(kind) == IF kind = "table" THEN "log" ELSE kind

\* if (snippetId) storage.createConsoleEntry({snippetId, type, content})
Forward(fwd, snippetId, type, content) ==
  IF Truthy(snippetId)
    THEN Append(fwd, [snippetId |-> snippetId, type |-> type, content |-> content])
    ELSE fwd

\* sandbox.console.log / error / warn / info / table
ShimConsole(f, kind, args, snippetId) ==
  LET content == ConsoleContent(kind, args)
      g == CASE kind \in {"log", "table"} -> [f EXCEPT !.logs = Append(@, content)]
             [] kind = "error" -> [f EXCEPT !.errors = Append(@, content)]
             [] kind = "warn" -> [f EXCEPT !.warnings = Append(@, content)]
             [] kind = "info" -> [f EXCEPT !.infos = Append(@, content)]
  IN [g EXCEPT !.fwd = Forward(@, snippetId, ConsoleType(kind), content),
               !.calls = Append(@, [kind |-> kind, args |-> args])]

\* if (delay > 5000) delay = 5000
ClampDelay(delay) == IF delay > EXEC_MAX_DELAY THEN EXEC_MAX_DELAY ELSE delay

\* sandbox.setTimeout: setTimeout(() => {...}, delay) on the host
ShimSetTimeout(f, fn, delay, env) ==
  [f EXCEPT !.newTimers =
     Append(@, [req |-> env.r, due |-> env.base + f.elapsed + ClampDelay(delay), body |-> fn])]

\* resolve(v) / reject(v) of the promise the script returned
SettlePromise(p, how, v) ==
  IF p.state = "pending"
    THEN [p EXCEPT !.state = IF how = "resolve" THEN "fulfilled" ELSE "rejected", !.v = v]
    ELSE p

\* one statement of sandboxed code; vm2 interrupts synchronous code at the timeout
Step(o, f, env) ==
  CASE o.op = "console" -> ShimConsole(f, o.kind, o.args, env.snippetId)
    [] o.op = "setTimeout" -> ShimSetTimeout(f, o.body, o.delay, env)
    [] o.op = "throw" -> [f EXCEPT !.thrown = o.val]
    [] o.op = "settle" -> [f EXCEPT !.promise = SettlePromise(@, o.kind, o.val)]
    [] o.op = "busy" ->
         IF f.elapsed + o.delay > env.timeout
           THEN [f EXCEPT !.elapsed = env.timeout, !.thrown = ErrTimeout]
           ELSE [f EXCEPT !.elapsed = @ + o.delay]
    [] o.op = "loop" -> [f EXCEPT !.elapsed = env.timeout, !.thrown = ErrTimeout]

\* statements run in order until one throws
RECURSIVE RunOps(_, _, _)
RunOps(ops, f, env) ==
  IF ops = <<>> \/ f.thrown # None THEN f
  ELSE RunOps(Tail(ops), Step(Head(ops), f, env), env)

\* the function the shim hands to the host's setTimeout:
\*   try { fn() } catch (error) { errors.push(error.toString()); forward }
\* error.toString() on null or undefined throws out of the callback
TimerCallback(f, fn, env) ==
  LET g == RunOps(fn, f, env)
  IN IF g.thrown = None THEN g
     ELSE IF Nullish(g.thrown) THEN [g EXCEPT !.thrown = ErrType]
     ELSE [g EXCEPT !.errors = Append(@, String(g.thrown)),
                    !.fwd = Forward(@, env.snippetId, "error", String(g.thrown)),
                    !.thrown = None]


(***************************************************************************)
(* POST /api/execute.                                                      *)
(***************************************************************************)
RequestBodies == { [code |-> c, snippetId |-> id] : c \in Scripts \cup {NotString}, id \in SnippetIds }

NoRequest == [code |-> NotString, snippetId |-> Undefined]

\* a handler that sends result as it is
ResultOrNull_Raw(x) == x

\* result !== undefined ? result : null
ResultOrNull(x) == IF x # Undefined THEN x ELSE Null

\* a handler that keeps what the run ended with also when the await throws
ResultAfterAwait_OnReject(p, old) == p.v

\* result = await vm2.run(code): the assignment happens only if the await does not throw
ResultAfterAwait(p, old) == IF p.state = "fulfilled" THEN p.v ELSE old

\* error = { name: err.name || 'Error', message: err.message || 'Unknown error', stack: err.stack }
CatchError(err) ==
  [name |-> OrElse(ErrName(err), "Error"),
   message |-> OrElse(ErrMessage(err), "Unknown error"),
   stack |-> ErrStack(err)]

\* res.json({ result, logs, errors, warnings, infos, error, executionTime })
ExecutionResult(res, f, err, ms) ==
  [status |-> 200, message |-> None, result |-> ResultOrNull(res),
   logs |-> f.logs, errors |-> f.errors, warnings |-> f.warnings, infos |-> f.infos,
   error |-> err, executionTime |-> ms]

\* res.status(400).json({ message: "Code must be a string" })
BadRequest == [NoResponse EXCEPT !.status = 400, !.message = "Code must be a string"]

\* a handler whose closures all reach the arrays of the first invocation
Frame_Shared(r) == NewFrame(logs[1], errors[1], warnings[1], infos[1], promise[r], calls[r])

\* what the closures of invocation r reach: the arrays declared in that invocation
Frame(r) == NewFrame(logs[r], errors[r], warnings[r], infos[r], promise[r], calls[r])

Env(r) == [r |-> r, snippetId |-> req[r].snippetId, base |-> now, timeout |-> EXEC_TIMEOUT]

\* a handler whose four arrays are module-level, one set for all invocations
Commit_Global(r, f, fwd) ==
  /\ logs' = [q \in Reqs |-> f.logs]
  /\ errors' = [q \in Reqs |-> f.errors]
  /\ warnings' = [q \in Reqs |-> f.warnings]
  /\ infos' = [q \in Reqs |-> f.infos]
  /\ calls' = [calls EXCEPT ![r] = f.calls]
  /\ inflight' = inflight \o fwd
  /\ forwarded' = [forwarded EXCEPT ![r] = @ \o fwd]

\* the arrays of invocation r and the host effects of a piece of sandboxed code
Commit(r, f, fwd) ==
  /\ logs' = [logs EXCEPT ![r] = f.logs]
  /\ errors' = [errors EXCEPT ![r] = f.errors]
  /\ warnings' = [warnings EXCEPT ![r] = f.warnings]
  /\ infos' = [infos EXCEPT ![r] = f.infos]
  /\ calls' = [calls EXCEPT ![r] = f.calls]
  /\ inflight' = inflight \o fwd
  /\ forwarded' = [forwarded EXCEPT ![r] = @ \o fwd]

\* the host is between two events: no continuation of an await is waiting to run
Quiet == host = "up" /\ vpc # "resuming" /\ \A r \in Reqs : pc[r] # "resuming"

\* lines 1118-1155 once the awaited value p has settled: the rest of the try
\* block or the catch block, then res.json.  t0 is startTime, t is Date.now().
Conclude(r, f, p, t0, t) ==
  LET sid == req[r].snippetId
      res == ResultAfterAwait(p, Undefined)
  IN /\ result' = [result EXCEPT ![r] = res]
     /\ promise' = [promise EXCEPT ![r] = p]
     /\ IF p.state = "fulfilled"
          THEN /\ Commit(r, f, Forward(f.fwd, sid, "info",
                     "// Code execution completed in " \o ToString(t - t0) \o "ms"))
               /\ error' = [error EXCEPT ![r] = NullError]
               /\ response' = [response EXCEPT ![r] = ExecutionResult(res, f, NullError, t - t0)]
               /\ pc' = [pc EXCEPT ![r] = "responded"]
               /\ outcome' = [outcome EXCEPT ![r] = "Completed"]
               /\ UNCHANGED <<raised, host, crashedBy>>
          ELSE /\ raised' = [raised EXCEPT ![r] = p.v]
               /\ outcome' = [outcome EXCEPT ![r] = IF p.v = ErrTimeout THEN "TimedOut" ELSE "Faulted"]
               /\ IF Nullish(p.v)
                    \* err.name throws a TypeError inside the catch block: the async
                    \* handler rejects, nothing is sent
                    THEN /\ Commit(r, f, f.fwd)
                         /\ error' = [error EXCEPT ![r] = NullError]
                         /\ pc' = [pc EXCEPT ![r] = "escaped"]
                         /\ host' \in {"up", "crashed"}
                         /\ crashedBy' = IF host' = "crashed" THEN "handler" ELSE crashedBy
                         /\ UNCHANGED response
                    ELSE /\ Commit(r, f, Forward(f.fwd, sid, "error",
                               ErrName(p.v) \o ": " \o ErrMessage(p.v)))
                         /\ error' = [error EXCEPT ![r] = CatchError(p.v)]
                         /\ response' = [response EXCEPT ![r] =
                                           ExecutionResult(res, f, CatchError(p.v), t - t0)]
                         /\ pc' = [pc EXCEPT ![r] = "responded"]
                         /\ UNCHANGED <<host, crashedBy>>

\* a handler that runs the source although the interpreter was not constructed
VMRun_Unguarded(ops, f, env) == RunOps(ops, f, env)

\* const vm2 = new vm.VM({ timeout: 5000, sandbox }); result = await vm2.run(code):
\* when the constructor throws, control goes to the catch block and run is not called
VMRun(ops, f, env) ==
  IF <<"execute", env.r>> \in broken THEN [f EXCEPT !.thrown = ErrVM] ELSE RunOps(ops, f, env)

\* lines 1007-1118: fresh arrays and sandbox, startTime, new vm.VM, vm2.run(code)
StartRun(r) ==
  LET s == req[r].code
      f == VMRun(s.ops, NewFrame(<<>>, <<>>, <<>>, <<>>, s.completion, <<>>), Env(r))
  IN /\ startTime' = [startTime EXCEPT ![r] = now]
     /\ now' = now + f.elapsed
     /\ timers' = timers \o f.newTimers
     /\ IF f.thrown # None
          THEN Conclude(r, f, [s.completion EXCEPT !.state = "rejected", !.v = f.thrown],
                        now, now + f.elapsed)
          ELSE /\ Commit(r, f, f.fwd)
               /\ promise' = [promise EXCEPT ![r] = f.promise]
               /\ pc' = [pc EXCEPT ![r] = IF f.promise.state = "pending" THEN "awaiting" ELSE "resuming"]
               /\ result' = [result EXCEPT ![r] = Undefined]
               /\ error' = [error EXCEPT ![r] = NullError]
               /\ outcome' = [outcome EXCEPT ![r] = "Running"]
               /\ UNCHANGED <<response, raised, host, crashedBy>>

\* the request arrives: lines 979-1005, and the run when nothing is awaited before it
Receive(r) ==
  /\ Quiet
  /\ pc[r] = "idle"
  /\ IF req[r].code = NotString
       THEN /\ response' = [response EXCEPT ![r] = BadRequest]
            /\ pc' = [pc EXCEPT ![r] = "responded"]
            /\ UNCHANGED <<now, host, logs, errors, warnings, infos, result, error, startTime,
                           promise, timers, inflight, calls, raised, outcome, forwarded,
                           crashedBy>>
       ELSE IF Truthy(req[r].snippetId)
         THEN /\ pc' = [pc EXCEPT ![r] = "clearing"]
              /\ UNCHANGED <<now, host, logs, errors, warnings, infos, result, error, startTime,
                             promise, response, timers, inflight, calls, raised, outcome,
                             forwarded, crashedBy>>
         ELSE StartRun(r)
  /\ UNCHANGED <<req, store, nextId, invoked, failedFor, vvars, ovars>>

\* storage.clearConsoleEntries(snippetId) has returned (false when the delete
\* failed), and the handler goes on
ClearDone(r) ==
  /\ Quiet
  /\ pc[r] = "clearing"
  /\ \E ok \in BOOLEAN :
       /\ store' = IF ok THEN SelectSeq(store, LAMBDA e : e.snippetId # req[r].snippetId) ELSE store
       /\ failedFor' = IF ok THEN failedFor ELSE failedFor \cup {req[r].snippetId}
  /\ StartRun(r)
  /\ UNCHANGED <<req, nextId, invoked, vvars, ovars>>

\* the continuation of `await vm2.run(code)` runs
Resume(r) ==
  /\ host = "up"
  /\ pc[r] = "resuming"
  /\ Conclude(r, Frame(r), promise[r], startTime[r], now)
  /\ UNCHANGED <<now, req, startTime, timers, store, nextId, invoked, failedFor, vvars, ovars>>


(***************************************************************************)
(* The host event loop and the console-entry store.                        *)
(***************************************************************************)
RemoveAt(q, i) == SubSeq(q, 1, i - 1) \o SubSeq(q, i + 1, Len(q))

\* the timer the host fires next: the earliest due, the oldest among equals
NextTimer ==
  CHOOSE i \in DOMAIN timers :
    \A j \in DOMAIN timers :
      timers[i].due < timers[j].due \/ (timers[i].due = timers[j].due /\ i <= j)

\* a host timer created by the shim fires: lines 1086-1101
FireTimer ==
  /\ Quiet
  /\ vpc = "absent"      \* the timers are those of the execute handler's shim
  /\ timers # <<>>
  /\ timers[NextTimer].due <= now
  /\ LET tm == timers[NextTimer]
         r == tm.req
         f == TimerCallback(Frame(r), tm.body, Env(r))
     IN /\ Commit(r, f, f.fwd)
        /\ timers' = RemoveAt(timers, NextTimer) \o f.newTimers
        /\ promise' = [promise EXCEPT ![r] = f.promise]
        /\ pc' = [pc EXCEPT ![r] =
                    IF @ = "awaiting" /\ f.promise.state # "pending" THEN "resuming" ELSE @]
        \* what the callback throws past the shim's catch is an uncaught exception
        /\ host' = IF f.thrown # None THEN "crashed" ELSE host
        /\ crashedBy' = IF f.thrown # None THEN "callback" ELSE crashedBy
        /\ invoked' = Append(invoked, [req |-> r, at |-> now, due |-> tm.due,
                                     escaped |-> f.thrown # None])
  /\ UNCHANGED <<now, req, result, error, startTime, response, store, nextId, raised, outcome,
                 failedFor, vvars, ovars>>

\* nothing is runnable: time passes until the next timer is due
AdvanceTime ==
  /\ Quiet
  /\ now < MaxTime
  /\ timers # <<>> \/ vpc = "awaiting" \/ \E r \in Reqs : pc[r] = "awaiting"
  /\ \A i \in DOMAIN timers : timers[i].due > now
  /\ now' = IF timers # <<>> /\ timers[NextTimer].due < MaxTime
              THEN timers[NextTimer].due ELSE MaxTime
  /\ UNCHANGED <<host, req, pc, logs, errors, warnings, infos, result, error, startTime,
                 promise, response, timers, inflight, store, nextId, calls, raised,
                 outcome, invoked, forwarded, failedFor, crashedBy, vvars, ovars>>

\* PostgresStorage.createConsoleEntry: the insert of one forwarded entry runs
DbInsert ==
  /\ \E i \in DOMAIN inflight :
       /\ store' = Append(store, [id |-> nextId, snippetId |-> inflight[i].snippetId,
                                  type |-> inflight[i].type, content |-> inflight[i].content])
       /\ inflight' = RemoveAt(inflight, i)
  /\ nextId' = nextId + 1
  /\ UNCHANGED <<now, host, req, pc, logs, errors, warnings, infos, result, error, startTime,
                 promise, response, timers, calls, raised, outcome, invoked, forwarded,
                 failedFor, crashedBy, vvars, ovars>>

\* the insert fails: the promise nobody holds rejects
DbFail ==
  /\ Quiet
  /\ \E i \in DOMAIN inflight :
       /\ inflight' = RemoveAt(inflight, i)
       /\ failedFor' = failedFor \cup {inflight[i].snippetId}
  /\ host' \in {"up", "crashed"}
  /\ crashedBy' = IF host' = "crashed" THEN "storage" ELSE crashedBy
  /\ UNCHANGED <<now, req, pc, logs, errors, warnings, infos, result, error, startTime,
                 promise, response, timers, store, nextId, calls, raised, outcome, invoked,
                 forwarded, vvars, ovars>>

(***************************************************************************)
(* Specification: one execute request with any script of Scripts.          *)
(***************************************************************************)
InitState(bodies) ==
  /\ now = 0
  /\ host = "up"
  /\ req = bodies
  /\ pc = [r \in Reqs |-> IF bodies[r] = NoRequest THEN "absent" ELSE "idle"]
  /\ logs = [r \in Reqs |-> <<>>]
  /\ errors = [r \in Reqs |-> <<>>]
  /\ warnings = [r \in Reqs |-> <<>>]
  /\ infos = [r \in Reqs |-> <<>>]
  /\ result = [r \in Reqs |-> Undefined]
  /\ error = [r \in Reqs |-> NullError]
  /\ startTime = [r \in Reqs |-> 0]
  /\ promise = [r \in Reqs |-> MkCompletion("value", "pending", Undefined)]
  /\ response = [r \in Reqs |-> NoResponse]
  /\ timers = <<>>
  /\ inflight = <<>>
  /\ store = <<>>
  /\ nextId = 1
  /\ calls = [r \in Reqs |-> <<>>]
  /\ raised = [r \in Reqs |-> None]
  /\ outcome = [r \in Reqs |-> "Idle"]
  /\ invoked = <<>>
  /\ forwarded = [r \in Reqs |-> <<>>]
  /\ failedFor = {}
  /\ crashedBy = None

\* res.json / res.status(..).json of the validate handler
NoValidateResponse == [status |-> 0, message |-> None, success |-> FALSE, results |-> <<>>]

\* no validate request is made
NoValidate ==
  /\ vreq = [id |-> None, code |-> NotString]
  /\ testCases = <<>>
  /\ vpc = "absent"
  /\ caseNo = 0
  /\ sandboxes = <<>>
  /\ results = <<>>
  /\ allPassed = TRUE
  /\ vresponse = NoValidateResponse
  /\ progress = <<>>
  /\ decided = <<>>
  /\ progressCalls = <<>>

\* no source text is being normalized
NoNormalize == source = <<>> /\ normalized = <<>> /\ npc = "absent"

\* no code is evaluated against a bare sandbox object
NoProbe ==
  /\ handler = None /\ probe = <<>> /\ at = 0
  /\ reached = {} /\ refused = {} /\ scheduled = <<>> /\ faults = {}

\* every construction of the interpreter succeeds
NoBroken == broken = {}

\* no concurrent createOrUpdateChallengeProgress calls
NoCallers == callers = <<>>

\* no Home page
NoHome ==
  /\ editorCode = 0
  /\ consoleOutput = [run |-> 0, text |-> None]
  /\ isExecuting = FALSE
  /\ autoRunTimer = [pending |-> FALSE, code |-> 0]
  /\ runs = <<>>

NoRest == NoBroken /\ NoCallers /\ NoHome

NoOthers == NoNormalize /\ NoProbe /\ NoRest

Init ==
  /\ \E b \in RequestBodies : InitState([r \in Reqs |-> IF r = 1 THEN b ELSE NoRequest])
  /\ NoValidate
  /\ NoOthers

Next ==
  \/ \E r \in Reqs : Receive(r)
  \/ \E r \in Reqs : ClearDone(r)
  \/ \E r \in Reqs : Resume(r)
  \/ FireTimer
  \/ AdvanceTime
  \/ DbInsert
  \/ DbFail

Spec == Init /\ [][Next]_vars

TypeOK ==
  /\ now \in 0..MaxTime
  /\ host \in {"up", "crashed"}
  /\ \A r \in Reqs : pc[r] \in {"absent", "idle", "clearing", "awaiting", "resuming", "responded", "escaped"}


(***************************************************************************)
(* Claims about POST /api/execute, checked under Spec.                     *)
(***************************************************************************)
Started(r) == pc[r] \in {"awaiting", "resuming", "responded", "escaped"}

Responded(r) == pc[r] = "responded" /\ response[r].status = 200

\* the deadline of run r
Deadline(r) == startTime[r] + EXEC_TIMEOUT

\* C1: a request whose source is a string returns an ExecutionResult, and the
\* handler never waits for it longer than the enforced timeout, whether the
\* script finishes synchronously or evaluates to a promise the handler awaits.
C1_BoundedWait ==
  \A r \in Reqs :
    /\ pc[r] \in {"awaiting", "resuming"} => now <= Deadline(r)
    /\ Responded(r) => response[r].executionTime <= EXEC_TIMEOUT

\* the kinds the handler reports for the errors a script raises
FaultKinds == { CatchError(e).name : e \in JSValues \ {Undefined, Null, ErrTimeout} }

\* C2: a run that ended because the deadline elapsed reports an error of kind
\* "TimeoutFault", a kind no runtime or syntax error of a script is reported with.
C2_TimeoutKind ==
  \A r \in Reqs :
    (Responded(r) /\ outcome[r] = "TimedOut") =>
      /\ response[r].error.name = "TimeoutFault"
      /\ response[r].error.name \notin FaultKinds

\* C3: once a run has timed out, no console-shim call of its code is accepted:
\* none of the four arrays grows and nothing more is forwarded to the store.
C3_NoCaptureAfterTimeout ==
  [][\A r \in Reqs :
       outcome[r] = "TimedOut" =>
         /\ logs'[r] = logs[r] /\ errors'[r] = errors[r]
         /\ warnings'[r] = warnings[r] /\ infos'[r] = infos[r]
         /\ forwarded'[r] = forwarded[r]]_vars

\* C4: a timer-shim callback whose clamped delay elapses after the deadline of
\* its run is never invoked.
C4_LateCallbackDiscarded ==
  \A i \in DOMAIN invoked : invoked[i].due <= Deadline(invoked[i].req)

\* C5: every fault sandboxed code raises is caught at the handler boundary and
\* becomes thrownError = {name, message, stack} of the raised error; none
\* escapes to the host.
C5_FaultsCaught ==
  /\ \A r \in Reqs : pc[r] # "escaped"
  /\ \A i \in DOMAIN invoked : ~invoked[i].escaped
  /\ \A r \in Reqs :
       (Responded(r) /\ raised[r] \in ErrorObjects) =>
         response[r].error = [name |-> ErrName(raised[r]), message |-> ErrMessage(raised[r]),
                              stack |-> ErrStack(raised[r])]

\* C6: in every ExecutionResult, a non-null error comes with a null result.
C6_ErrorExcludesResult ==
  \A r \in Reqs :
    (Responded(r) /\ response[r].error # NullError) => response[r].result = Null

\* a run raised an error and the handler answered with it
C6_Witness ==
  \E r \in Reqs : Responded(r) /\ response[r].error # NullError /\ response[r].result = Null

\* the value the script of request r evaluated to: its completion value, or
\* what the promise it returned was fulfilled with
ScriptValue(r) ==
  IF req[r].code.completion.state = "pending" THEN promise[r].v ELSE req[r].code.completion.v

C7_WitnessValue ==
  \E r \in Reqs :
    /\ Responded(r) /\ outcome[r] = "Completed"
    /\ ScriptValue(r) = N2 /\ response[r].result = N2

\* the texts of the calls of c that land in the array fed by the kinds ks
RECURSIVE CallContents(_, _)
CallContents(c, ks) ==
  IF c = <<>> THEN <<>>
  ELSE IF Head(c).kind \in ks
    THEN <<ConsoleContent(Head(c).kind, Head(c).args)>> \o CallContents(Tail(c), ks)
    ELSE CallContents(Tail(c), ks)

\* C8: when the code of a run calls the console shim N times, the four
\* sequences of its result hold N entries in all, each in call order.
C8_EveryCallCaptured ==
  \A r \in Reqs :
    Responded(r) =>
      /\ Len(response[r].logs) + Len(response[r].warnings) + Len(response[r].errors)
           + Len(response[r].infos) = Len(calls[r])
      /\ response[r].logs = CallContents(calls[r], {"log", "table"})
      /\ response[r].warnings = CallContents(calls[r], {"warn"})
      /\ response[r].errors = CallContents(calls[r], {"error"})
      /\ response[r].infos = CallContents(calls[r], {"info"})

\* the array a call of kind k pushes to
ArrayOf(k) == IF k = "table" THEN "log" ELSE k

\* the only position the handler records for the entry of the i-th call of a
\* run: its index in the array it was pushed to
EmittedAt(r, i) ==
  Cardinality({ j \in 1..i : ArrayOf(calls[r][j].kind) = ArrayOf(calls[r][i].kind) })

\* C9: the entries captured in one run carry sequence numbers that increase
\* strictly in call order across all four kinds.
C9_SequenceNumbers ==
  \A r \in Reqs : \A i, j \in DOMAIN calls[r] :
    i < j => EmittedAt(r, i) < EmittedAt(r, j)

\* C10: a request is answered with a status other than 200 only when its
\* source is not a string (400); every request whose source is a string is
\* answered with 200 and an ExecutionResult.
C10_StatusOnlyForMalformed ==
  \A r \in Reqs :
    pc[r] \in {"responded", "escaped"} =>
      response[r].status = IF req[r].code = NotString THEN 400 ELSE 200


\* a storage call made for the snippet id of request r has failed
PersistenceFailed(r) == Truthy(req[r].snippetId) /\ req[r].snippetId \in failedFor

\* what request r is answered with when every storage call succeeds and its
\* script does not leave the handler waiting for a pending promise
SoloResponse(r) ==
  LET s == req[r].code
      f == RunOps(s.ops, NewFrame(<<>>, <<>>, <<>>, <<>>, s.completion, <<>>), Env(r))
  IN IF f.thrown # None
       THEN ExecutionResult(Undefined, f, CatchError(f.thrown), f.elapsed)
       ELSE IF f.promise.state = "fulfilled"
         THEN ExecutionResult(f.promise.v, f, NullError, f.elapsed)
         ELSE ExecutionResult(Undefined, f, CatchError(f.promise.v), f.elapsed)

\* request r is in the handler and will reach res.json on a host that stays
\* up: it is about to run or to resume, or it awaits a promise that a pending
\* timer callback of its script resolves
WillReturn(r) ==
  \/ pc[r] \in {"clearing", "resuming"}
  \/ /\ pc[r] = "awaiting"
     /\ \E i \in DOMAIN timers :
          /\ timers[i].req = r
          /\ \E j \in DOMAIN timers[i].body : timers[i].body[j].op = "settle"

\* C11: when a storage call made for an execute request with a snippet id
\* fails (clearConsoleEntries or a createConsoleEntry), the request still
\* returns, with the ExecutionResult it returns when the call succeeds.
C11_PersistenceFailureHarmless ==
  \A r \in Reqs :
    PersistenceFailed(r) =>
      /\ crashedBy = "storage" => ~WillReturn(r)
      /\ (Responded(r) /\ req[r].code.completion.state # "pending") =>
           response[r] = SoloResponse(r)


(***************************************************************************)
(* POST /api/challenges/:id/validate.  The candidate source is run once    *)
(* per test case of the challenge, each run in a sandbox built inside the  *)
(* loop body.                                                              *)
(***************************************************************************)
\* statements of candidate sources; the timer delays are below and above the cap
TestStatements ==
  { ConsoleOp("log", <<SFizz>>),
    ConsoleOp("warn", <<SFizz>>),
    ThrowOp(ErrBoom),
    ThrowOp(Null),
    LoopOp,
    TimeoutOp(600, <<SettleOp("resolve", SFizz)>>),
    TimeoutOp(3000, <<ConsoleOp("log", <<N2>>)>>),
    ConsoleOp("log", <<N2>>) }

TestCompletions ==
  { MkCompletion("value", "fulfilled", SFizz),
    MkCompletion("value", "fulfilled", Undefined),
    MkCompletion("promise", "rejected", ErrType),
    MkCompletion("promise", "pending", Undefined) }

TestScripts ==
  { [ops |-> o, completion |-> c] : o \in SeqsUpTo(TestStatements, MaxOps), c \in TestCompletions }

\* testCase.expected of the stored test cases
Expecteds == {SFizz, Null, N2}

TestCaseLists == SeqsUpTo({ [input |-> N2, expected |-> e] : e \in Expecteds }, MaxCases)

\* req.params.id: the id of the stored challenge, one that parseInt maps to
\* NaN, and one no challenge has
ValidateRequests ==
  { [id |-> "1", code |-> c] : c \in TestScripts \cup {NotString} }
    \cup { [id |-> i, code |-> [ops |-> <<>>, completion |-> MkCompletion("value", "fulfilled", SFizz)]] :
             i \in {"NaN", "9"} }

\* const logs = []; const errors = []; and the promise vm2.run(code) returns
NewSandbox == [logs |-> <<>>, errors |-> <<>>, promise |-> vreq.code.completion, calls |-> <<>>]

\* a validator whose console shims all push to the array of the first test case
CaptureOf_Shared(i) == 1

\* the logs array the console.log shim of test case i closes over: the one
\* declared in its own iteration of the loop
CaptureOf(i) == i

\* sandbox.console of the validator: log and error capture, warn / info / table do nothing
VShimConsole(f, kind, args) ==
  LET content == JoinArgs(args)
      g == CASE kind = "log" -> [f EXCEPT !.logs = Append(@, content)]
             [] kind = "error" -> [f EXCEPT !.errors = Append(@, content)]
             [] OTHER -> f
  IN [g EXCEPT !.calls = Append(@, [kind |-> kind, args |-> args])]

\* if (delay > 1000) delay = 1000
VClampDelay(delay) == IF delay > TEST_MAX_DELAY THEN TEST_MAX_DELAY ELSE delay

\* sandbox.setTimeout of the validator
VShimSetTimeout(f, fn, delay, env) ==
  [f EXCEPT !.newTimers =
     Append(@, [req |-> env.r, due |-> env.base + f.elapsed + VClampDelay(delay), body |-> fn])]

\* one statement of candidate code in a validator sandbox
VStep(o, f, env) ==
  CASE o.op = "console" -> VShimConsole(f, o.kind, o.args)
    [] o.op = "setTimeout" -> VShimSetTimeout(f, o.body, o.delay, env)
    [] OTHER -> Step(o, f, env)

RECURSIVE VRunOps(_, _, _)
VRunOps(ops, f, env) ==
  IF ops = <<>> \/ f.thrown # None THEN f
  ELSE VRunOps(Tail(ops), VStep(Head(ops), f, env), env)

\* const vm2 = new vm.VM({ timeout: 2000, sandbox }); await vm2.run(code) of
\* test case env.r: a constructor that throws is caught by the catch of the iteration
VVMRun(ops, f, env) ==
  IF <<"validate", env.r>> \in broken THEN [f EXCEPT !.thrown = ErrVM] ELSE VRunOps(ops, f, env)

\* setTimeout(() => { try { fn(); } catch (error) {} }, delay)
VTimerCallback(f, fn, env) == [VRunOps(fn, f, env) EXCEPT !.thrown = None]

\* what the closures of test case i reach
VFrame(i, sbs) ==
  NewFrame(sbs[CaptureOf(i)].logs, sbs[i].errors, <<>>, <<>>, sbs[i].promise, sbs[i].calls)

VEnv(i, t) == [r |-> i, snippetId |-> Undefined, base |-> t, timeout |-> TEST_TIMEOUT]

\* the arrays after code of test case i ran
VCommit(i, sbs, f) ==
  [sbs EXCEPT ![CaptureOf(i)].logs = f.logs, ![i].errors = f.errors,
              ![i].promise = f.promise, ![i].calls = f.calls]

\* a log entry as a value of the language: a string
StrVal(content) == "s:" \o content

\* the texts one console.log argument can be rendered to
RenderedTexts == { RenderArg(v) : v \in JSValues }

\* a comparison of what the values print as: "2" and 2 both serialize to 2
Serialize_Loose(v) ==
  IF \E c \in RenderedTexts : v = StrVal(c)
    THEN CHOOSE c \in RenderedTexts : v = StrVal(c)
    ELSE IF v = ObjA THEN "{\"a\":1}" ELSE JSONstringify(v)

\* JSON.stringify(v), no indentation
Serialize(v) ==
  IF \E c \in RenderedTexts : v = StrVal(c)
    THEN "\"" \o (CHOOSE c \in RenderedTexts : v = StrVal(c)) \o "\""
    ELSE IF v = ObjA THEN "{\"a\":1}" ELSE JSONstringify(v)

\* error: null of a TestResult
NoTestError == [name |-> None, message |-> None]

\* err?.message of the error vm2 raises at the validator's timeout
VErrMessage(v) ==
  IF v = ErrTimeout THEN "Script execution timed out after 2000ms" ELSE ErrMessage(v)

\* a validator that compares the return value whatever was logged
ActualOf_ReturnValue(lg, v) == v

\* the value compared with testCase.expected: the last log if there is one,
\* otherwise the result of the run
ActualOf(lg, v) == IF Len(lg) > 0 THEN StrVal(lg[Len(lg)]) ELSE v

\* a validator that compares a run that threw like one that returned undefined
TestResultOf_Lenient(tc, lg, p) ==
  [pass |-> Serialize(ActualOf(lg, Undefined)) = Serialize(tc.expected),
   input |-> tc.input, expected |-> tc.expected,
   actual |-> ActualOf(lg, Undefined), error |-> NoTestError]

\* lines 1555-1594: the TestResult of a run whose awaited value p has settled,
\* lg being the logs array of the iteration
TestResultOf(tc, lg, p) ==
  IF p.state = "fulfilled"
    THEN [pass |-> Serialize(ActualOf(lg, p.v)) = Serialize(tc.expected),
          input |-> tc.input, expected |-> tc.expected,
          actual |-> ActualOf(lg, p.v), error |-> NoTestError]
    ELSE [pass |-> FALSE, input |-> tc.input, expected |-> tc.expected, actual |-> Null,
          error |-> [name |-> OrElse(ErrName(p.v), "Error"),
                     message |-> OrElse(VErrMessage(p.v), "Unknown error")]]

\* a validator that never clears allPassed
AllPassedAfter_Kept(ap, tr) == ap

\* if (!testResult.pass) allPassed = false
AllPassedAfter(ap, tr) == IF ~tr.pass THEN FALSE ELSE ap

\* a validator that records completion whatever the tests did
ShouldRecord_Always(ap) == TRUE

\* if (allPassed) await storage.createOrUpdateChallengeProgress(...)
ShouldRecord(ap) == ap

\* the locals of the handler and the host state its code changes
Locals ==
  [pc |-> vpc, caseNo |-> caseNo, sandboxes |-> sandboxes, results |-> results,
   allPassed |-> allPassed, decided |-> decided, timers |-> timers, now |-> now]

\* lines 1573-1599 for test case i: the comparison, results.push, allPassed
Settle(i, L, p) ==
  LET lg == L.sandboxes[CaptureOf(i)].logs
      tr == TestResultOf(testCases[i], lg, p)
  IN [L EXCEPT !.results = Append(@, tr),
               !.allPassed = AllPassedAfter(@, tr),
               !.decided = Append(@, [logs |-> lg, outcome |-> p,
                                      earlier |-> [k \in 1..(i - 1) |-> L.sandboxes[k].logs]])]

\* lines 1602-1615: the loop is over
AfterLoop(L) == [L EXCEPT !.pc = IF ShouldRecord(L.allPassed) THEN "writing" ELSE "responded"]

\* the for loop from test case i on, up to the next await that suspends the
\* handler; a run that throws out of vm2.run is settled without an await
RECURSIVE RunCases(_, _)
RunCases(i, L) ==
  IF i > Len(testCases) THEN AfterLoop(L)
  ELSE LET sb0 == Append(L.sandboxes, NewSandbox)
           f == VVMRun(vreq.code.ops, VFrame(i, sb0), VEnv(i, L.now))
           L1 == [L EXCEPT !.caseNo = i,
                           !.sandboxes = VCommit(i, sb0, f),
                           !.timers = @ \o f.newTimers,
                           !.now = @ + f.elapsed]
       IN IF f.thrown # None
            THEN RunCases(i + 1, Settle(i, L1, [f.promise EXCEPT !.state = "rejected", !.v = f.thrown]))
            ELSE [L1 EXCEPT !.pc = IF f.promise.state = "pending" THEN "awaiting" ELSE "resuming"]

\* res.json({ success: allPassed, results, message })
ValidateResult(L) ==
  [status |-> 200,
   message |-> IF L.allPassed THEN "All tests passed!" ELSE "Some tests failed.",
   success |-> L.allPassed, results |-> L.results]

\* res.status(code).json({ message })
ValidateError(code, msg) == [NoValidateResponse EXCEPT !.status = code, !.message = msg]

\* the handler ran up to an await or to its response
Apply(L) ==
  /\ vpc' = L.pc
  /\ caseNo' = L.caseNo
  /\ sandboxes' = L.sandboxes
  /\ results' = L.results
  /\ allPassed' = L.allPassed
  /\ decided' = L.decided
  /\ timers' = L.timers
  /\ now' = L.now
  /\ vresponse' = IF L.pc = "responded" THEN ValidateResult(L) ELSE vresponse
  /\ progressCalls' =
       IF L.pc = "writing"
         THEN Append(progressCalls, [challengeId |-> vreq.id, userCode |-> vreq.code,
                                     completed |-> TRUE, outcome |-> "pending"])
         ELSE progressCalls

\* the request arrives: lines 1487-1500
VReceive ==
  /\ Quiet
  /\ vpc = "idle"
  /\ IF vreq.id = "NaN"
       THEN vpc' = "responded" /\ vresponse' = ValidateError(400, "Invalid challenge ID")
       ELSE IF vreq.code = NotString
         THEN vpc' = "responded" /\ vresponse' = ValidateError(400, "Code must be a string")
         ELSE vpc' = "loading" /\ UNCHANGED vresponse
  /\ UNCHANGED <<now, host, timers, evars, ovars, vreq, testCases, caseNo, sandboxes, results,
                 allPassed, progress, decided, progressCalls>>

\* storage.getChallenge(id) has settled: lines 1500-1512 and the loop
VChallengeLoaded ==
  /\ Quiet
  /\ vpc = "loading"
  /\ \E ok \in BOOLEAN :
       IF ~ok \/ vreq.id # "1"
         THEN /\ vpc' = "responded"
              /\ vresponse' = IF ok THEN ValidateError(404, "Challenge not found")
                                    ELSE ValidateError(500, "Failed to validate challenge")
              /\ UNCHANGED <<now, timers, caseNo, sandboxes, results, allPassed, decided,
                             progressCalls>>
         ELSE Apply(RunCases(1, Locals))
  /\ UNCHANGED <<host, evars, ovars, vreq, testCases, progress>>

\* the continuation of `await vm2.run(code)` of the current test case runs
VResume ==
  /\ host = "up"
  /\ vpc = "resuming"
  /\ Apply(RunCases(caseNo + 1, Settle(caseNo, Locals, sandboxes[caseNo].promise)))
  /\ UNCHANGED <<host, evars, ovars, vreq, testCases, progress>>

\* a host timer created by the validator's shim fires: lines 1539-1543
VFireTimer ==
  /\ Quiet
  /\ vpc # "absent"      \* the timers are those of the validator's shim
  /\ timers # <<>>
  /\ timers[NextTimer].due <= now
  /\ LET tm == timers[NextTimer]
         i == tm.req
         f == VTimerCallback(VFrame(i, sandboxes), tm.body, VEnv(i, now))
     IN /\ sandboxes' = VCommit(i, sandboxes, f)
        /\ timers' = RemoveAt(timers, NextTimer) \o f.newTimers
        /\ vpc' = IF vpc = "awaiting" /\ i = caseNo /\ f.promise.state # "pending"
                    THEN "resuming" ELSE vpc
  /\ UNCHANGED <<now, host, evars, ovars, vreq, testCases, caseNo, results, allPassed,
                 vresponse, progress, decided, progressCalls>>

\* PostgresStorage.createOrUpdateChallengeProgress: update the row of the
\* challenge if there is one, insert otherwise
Upsert(rows, p) ==
  IF \E k \in DOMAIN rows : rows[k].challengeId = p.challengeId
    THEN [k \in DOMAIN rows |-> IF rows[k].challengeId = p.challengeId THEN p ELSE rows[k]]
    ELSE Append(rows, p)

\* the progress write has settled: lines 1604-1620
VWriteDone ==
  /\ Quiet
  /\ vpc = "writing"
  /\ \E ok \in BOOLEAN :
       /\ progress' = IF ok THEN Upsert(progress, [challengeId |-> vreq.id, userCode |-> vreq.code,
                                                   completed |-> TRUE])
                            ELSE progress
       /\ vresponse' = IF ok THEN ValidateResult(Locals)
                             ELSE ValidateError(500, "Failed to validate challenge")
       /\ progressCalls' = [progressCalls EXCEPT ![Len(progressCalls)].outcome =
                              IF ok THEN "done" ELSE "failed"]
  /\ vpc' = "responded"
  /\ UNCHANGED <<now, host, timers, evars, ovars, vreq, testCases, caseNo, sandboxes, results,
                 allPassed, decided>>

\* one validate request for the stored challenge, any candidate of TestScripts
InitValidate ==
  /\ InitState([r \in Reqs |-> NoRequest])
  /\ NoOthers
  /\ vreq \in ValidateRequests
  /\ testCases \in TestCaseLists
  /\ vpc = "idle"
  /\ caseNo = 0
  /\ sandboxes = <<>>
  /\ results = <<>>
  /\ allPassed = TRUE
  /\ vresponse = NoValidateResponse
  /\ progress = <<>>
  /\ decided = <<>>
  /\ progressCalls = <<>>

NextValidate ==
  \/ VReceive
  \/ VChallengeLoaded
  \/ VResume
  \/ VFireTimer
  \/ AdvanceTime
  \/ VWriteDone

SpecValidate == InitValidate /\ [][NextValidate]_vars


(***************************************************************************)
(* Claims about the validate handler, checked under SpecValidate.          *)
(***************************************************************************)
\* C12: a validate response that carries results has success = true if and
\* only if every TestResult in it has pass = true.
C12_SuccessIffAllPass ==
  vresponse.status = 200 =>
    (vresponse.success <=> \A i \in DOMAIN vresponse.results : vresponse.results[i].pass)

\* one test case passed, another failed, and the response says success = false
C12_Witness ==
  /\ vresponse.status = 200 /\ ~vresponse.success
  /\ \E i, j \in DOMAIN vresponse.results :
       vresponse.results[i].pass /\ ~vresponse.results[j].pass

\* C13: createOrUpdateChallengeProgress is called at most once by a validate
\* request, after every test case has run and only when every one passed; a
\* request with a failing test case makes no progress write.
C13_ProgressOnlyOnFullSuccess ==
  /\ Len(progressCalls) <= 1
  /\ progressCalls # <<>> =>
       /\ Len(results) = Len(testCases)
       /\ \A i \in DOMAIN results : results[i].pass
       /\ progressCalls[1].completed
  /\ (\E i \in DOMAIN results : ~results[i].pass) => progressCalls = <<>> /\ progress = <<>>

\* two test cases ran, both passed, and the completion was written
C13_Witness ==
  /\ Len(results) >= 2
  /\ progressCalls # <<>> /\ progressCalls[1].outcome = "done"
  /\ progress # <<>>

\* C14: when every test passed and the progress write fails, the request
\* still returns {success: true, results, message}.
C14_ProgressFailureContained ==
  ( /\ vpc = "responded"
    /\ progressCalls # <<>> /\ progressCalls[Len(progressCalls)].outcome = "failed"
    /\ results # <<>>
    /\ \A i \in DOMAIN results : results[i].pass )
  => /\ vresponse.status = 200
     /\ vresponse.success
     /\ vresponse.results = results
     /\ vresponse.message = "All tests passed!"

\* what run i returned; a run that threw returned nothing, reported as null
ReturnValue(i) == IF decided[i].outcome.state = "fulfilled" THEN decided[i].outcome.v ELSE Null

\* the last log entry the run of test case i had captured, or else what it returned
LastLogOrValue(i) ==
  IF decided[i].logs # <<>> THEN StrVal(decided[i].logs[Len(decided[i].logs)]) ELSE ReturnValue(i)

\* C15 as stated: for each test case, actual is the last captured log entry if
\* there is one, otherwise the return value, and pass is true exactly when the
\* serializations of actual and expected are equal.
C15_ActualAndPass_EveryRun ==
  \A i \in DOMAIN results :
    /\ results[i].actual = LastLogOrValue(i)
    /\ results[i].pass <=> Serialize(results[i].actual) = Serialize(results[i].expected)

\* C15, amended: the rule holds for each test case whose run completes
\* without throwing; a run that throws or times out has actual = null and
\* pass = false.
C15_ActualAndPass ==
  \A i \in DOMAIN results :
    IF decided[i].outcome.state = "fulfilled"
      THEN /\ results[i].actual = LastLogOrValue(i)
           /\ results[i].pass <=> Serialize(results[i].actual) = Serialize(results[i].expected)
      ELSE results[i].actual = Null /\ ~results[i].pass

\* a run that logged and returned something else passed on its last log entry
C15_Witness ==
  \E i \in DOMAIN results :
    /\ decided[i].outcome.state = "fulfilled"
    /\ decided[i].logs # <<>>
    /\ decided[i].outcome.v # results[i].actual
    /\ results[i].pass

IsPrefix(a, b) == Len(a) <= Len(b) /\ SubSeq(b, 1, Len(a)) = a

\* C16: the log entries the comparison of test case i reads are entries that
\* console.log calls of run i (its script or its timer callbacks) emitted, in
\* call order, and no entry of another test case's run.
C16_OwnCaptureOnly ==
  \A i \in DOMAIN decided :
    IsPrefix(decided[i].logs, CallContents(sandboxes[i].calls, {"log"}))

\* a timer callback of an earlier test case logged while a later test case was
\* running, and the later test case has been compared
C16_Witness ==
  \E j \in DOMAIN decided : \E k \in 1..(j - 1) :
    Len(decided[j].earlier[k]) > Len(decided[k].logs)


(***************************************************************************)
(* Two execute requests in flight at once: any two bodies of ConcBodies,   *)
(* received in any order and interleaved at every await.                   *)
(***************************************************************************)
ConcScripts ==
  { [ops |-> <<ConsoleOp("log", <<N2>>)>>,
     completion |-> MkCompletion("value", "fulfilled", N2)],
    [ops |-> <<ConsoleOp("warn", <<ObjA, SFizz>>), ConsoleOp("error", <<Null>>)>>,
     completion |-> MkCompletion("promise", "fulfilled", SFizz)],
    [ops |-> <<TimeoutOp(1000, <<ConsoleOp("log", <<SFizz>>)>>),
               TimeoutOp(1000, <<SettleOp("resolve", N2)>>)>>,
     completion |-> MkCompletion("promise", "pending", Undefined)],
    [ops |-> <<ConsoleOp("info", <<Undefined>>), ThrowOp(ErrBoom)>>,
     completion |-> MkCompletion("value", "fulfilled", Undefined)],
    [ops |-> <<TimeoutOp(500, <<ThrowOp(ErrType)>>),
               TimeoutOp(1000, <<SettleOp("resolve", ObjA)>>)>>,
     completion |-> MkCompletion("promise", "pending", Undefined)],
    [ops |-> <<BusyOp(3000), ConsoleOp("table", <<SFizz>>)>>,
     completion |-> MkCompletion("value", "fulfilled", Undefined)] }

ConcBodies == { [code |-> c, snippetId |-> id] : c \in ConcScripts, id \in SnippetIds }

InitConc ==
  /\ \E b1, b2 \in ConcBodies : InitState([r \in Reqs |-> IF r = 1 THEN b1 ELSE b2])
  /\ NoValidate
  /\ NoOthers

SpecConc == InitConc /\ [][Next]_vars

\* the texts the shim pushes to errors for what timer callbacks of the script
\* of request r throw
OwnThrowTexts(r) ==
  { String(req[r].code.ops[i].body[j].val) :
      i \in { k \in DOMAIN req[r].code.ops : req[r].code.ops[k].op = "setTimeout" },
      j \in { 1 } }

\* C17: whatever the interleaving of two execute requests, the four entry
\* sequences, the return value and the error in the result of a request hold
\* only what that request's own script produced.
C17_NoSharedState ==
  \A r \in Reqs :
    Responded(r) =>
      /\ IsPrefix(response[r].logs, CallContents(calls[r], {"log", "table"}))
      /\ IsPrefix(response[r].warnings, CallContents(calls[r], {"warn"}))
      /\ IsPrefix(response[r].infos, CallContents(calls[r], {"info"}))
      /\ \A i \in DOMAIN response[r].errors :
           \/ \E j \in DOMAIN calls[r] :
                calls[r][j].kind = "error"
                  /\ response[r].errors[i] = ConsoleContent("error", calls[r][j].args)
           \/ response[r].errors[i] \in OwnThrowTexts(r)
      /\ response[r].result =
           IF outcome[r] = "Completed" /\ ScriptValue(r) # Undefined THEN ScriptValue(r) ELSE Null
      /\ response[r].error = IF raised[r] = None THEN NullError ELSE CatchError(raised[r])

\* the two invocations were in flight during a common stretch of time
Overlapped ==
  /\ startTime[2] < startTime[1] + response[1].executionTime
  /\ startTime[1] < startTime[2] + response[2].executionTime

\* two requests with different scripts overlapped and both returned captured
\* entries, one of them pushed by a timer callback while the other was awaited
C17_Witness ==
  /\ Responded(1) /\ Responded(2)
  /\ req[1].code # req[2].code
  /\ Overlapped
  /\ response[1].logs # <<>>
  /\ response[2].errors # <<>>

\* the engine states of one invocation
TerminalStates == {"Completed", "TimedOut", "Faulted"}

\* C18: an invocation goes Idle -> Running -> one of Completed, TimedOut,
\* Faulted and stays there; reaching the terminal state produces the one
\* ExecutionResult of the request, which nothing changes afterwards.
C18_Lifecycle ==
  [][\A r \in Reqs :
       /\ outcome[r] = "Idle" => outcome'[r] \in {"Idle", "Running"} \cup TerminalStates
       /\ outcome[r] = "Running" => outcome'[r] \in {"Running"} \cup TerminalStates
       /\ outcome[r] \in TerminalStates => outcome'[r] = outcome[r]
       /\ outcome'[r] \in TerminalStates => response'[r].status = 200
       /\ response[r].status = 200 => response'[r] = response[r]]_vars

\* C19: two execute requests with the same source return identical logs and
\* an identical result, whatever the interleaving of the two.
C19_SameSourceSameOutput ==
  \A r1, r2 \in Reqs :
    (Responded(r1) /\ Responded(r2) /\ req[r1].code = req[r2].code) =>
      /\ response[r1].logs = response[r2].logs
      /\ response[r1].result = response[r2].result

\* the same source ran in two overlapping requests, and both returned entries
C19_Witness ==
  /\ Responded(1) /\ Responded(2)
  /\ req[1].code = req[2].code
  /\ Overlapped
  /\ response[1].logs # <<>>


(***************************************************************************)
(* The source normalizer of the execute handler (lines 986-1000), on       *)
(* source texts: sequences of characters.                                  *)
(***************************************************************************)
\* a line break, a blank, a letter, two of the endings the normalizer looks
\* for, and the two characters comments are made of
SourceChars == {"\n", " ", "x", ";", "{", "/", "*"}

SourceTexts == SeqsUpTo(SourceChars, MaxLen)

\* code.split('\n')
RECURSIVE Split(_)
Split(text) ==
  IF \A i \in DOMAIN text : text[i] # "\n" THEN <<text>>
  ELSE LET k == CHOOSE i \in DOMAIN text : text[i] = "\n" /\ \A j \in 1..(i - 1) : text[j] # "\n"
       IN <<SubSeq(text, 1, k - 1)>> \o Split(SubSeq(text, k + 1, Len(text)))

\* line.trim()
RECURSIVE Trim(_)
Trim(line) ==
  IF line # <<>> /\ Head(line) = " " THEN Trim(Tail(line))
  ELSE IF line # <<>> /\ line[Len(line)] = " " THEN Trim(SubSeq(line, 1, Len(line) - 1))
  ELSE line

\* line.startsWith(p), line.endsWith(p)
StartsWith(line, p) == Len(p) <= Len(line) /\ SubSeq(line, 1, Len(p)) = p

EndsWith(line, p) == Len(p) <= Len(line) /\ SubSeq(line, Len(line) - Len(p) + 1, Len(line)) = p

\* the condition under which the callback returns the line as it has it
LeftAlone(line) ==
  \/ line = <<>>
  \/ StartsWith(line, <<"/", "/">>) \/ StartsWith(line, <<"/", "*">>)
  \/ EndsWith(line, <<"*", "/">>)
  \/ EndsWith(line, <<";">>) \/ EndsWith(line, <<"{">>) \/ EndsWith(line, <<"}">>)
  \/ EndsWith(line, <<":">>) \/ EndsWith(line, <<",">>)

\* the callback of .map: line = line.trim(); return line or line + ';'
NormalizeLine(line) ==
  LET t == Trim(line) IN IF LeftAlone(t) THEN t ELSE t \o <<";">>

\* .join('\n')
RECURSIVE Join(_)
Join(lines) ==
  IF Len(lines) = 1 THEN lines[1] ELSE lines[1] \o <<"\n">> \o Join(Tail(lines))

\* code = code.split('\n').map(...).join('\n')
Normalize(text) == Join([i \in DOMAIN Split(text) |-> NormalizeLine(Split(text)[i])])

\* the handler normalizes the source it received
NormalizeSource ==
  /\ npc = "idle"
  /\ normalized' = Normalize(source)
  /\ npc' = "done"
  /\ UNCHANGED <<now, host, timers, evars, vvars, sbvars, restvars, source>>

InitNorm ==
  /\ InitState([r \in Reqs |-> NoRequest])
  /\ NoValidate
  /\ NoProbe
  /\ NoRest
  /\ source \in SourceTexts
  /\ normalized = <<>>
  /\ npc = "idle"

NextNorm == NormalizeSource

SpecNorm == InitNorm /\ [][NextNorm]_vars

\* C20: the normalizer works line by line; a line that is blank, a comment,
\* or ends with one of ; { } : , or a block-comment close comes out character
\* for character as it went in, and every other line comes out as it went in
\* with one ';' appended.
C20_LinesUntouchedOrTerminated ==
  npc = "done" =>
    LET in == Split(source)
        out == Split(normalized)
    IN /\ Len(out) = Len(in)
       /\ \A i \in DOMAIN in :
            out[i] = IF LeftAlone(Trim(in[i])) THEN in[i] ELSE in[i] \o <<";">>


(***************************************************************************)
(* The sandbox object of the two handlers, as evaluated code meets it:     *)
(* identifiers resolved through it and calls of its timer shim.            *)
(***************************************************************************)
Handlers == {"execute", "validate"}

\* a sandbox object that also carries the host's process object
SandboxKeys_WithProcess(h) == {"console", "setTimeout", "fetch", "process"}

\* the keys of the object literal handed to new vm.VM({ sandbox })
SandboxKeys(h) ==
  IF h = "execute" THEN {"console", "setTimeout", "fetch"} ELSE {"console", "setTimeout"}

\* global names evaluated code may try: the shims and host globals of Node
GlobalNames == {"console", "setTimeout", "fetch", "process", "require", "setInterval"}

\* the values code can pass as the delay of setTimeout(fn, delay)
NumberDelay(n) == [kind |-> "number", n |-> n]

NaNDelay == [kind |-> "NaN", n |-> 0]

UndefinedDelay == [kind |-> "undefined", n |-> 0]

SymbolDelay == [kind |-> "symbol", n |-> 0]

DelayValues ==
  { NumberDelay(n) : n \in {-1, 0, 1, 999, 1000, 1001, 4999, 5000, 5001, 86400000} }
    \cup {NaNDelay, UndefinedDelay, SymbolDelay}

RefOp(n) == [op |-> "ref", name |-> n, delay |-> UndefinedDelay]

SetTimeoutCall(d) == [op |-> "setTimeout", name |-> "setTimeout", delay |-> d]

Probes ==
  SeqsUpTo({ RefOp(n) : n \in GlobalNames } \cup { SetTimeoutCall(d) : d \in DelayValues },
           MaxProbe)

\* the enforced maximum of the handler's timer shim
MaxDelay(h) == IF h = "execute" THEN EXEC_MAX_DELAY ELSE TEST_MAX_DELAY

\* delay > max: the comparison converts delay to a number, which throws a
\* TypeError for a Symbol; NaN and undefined compare false
Comparable(d) == d.kind # "symbol"

\* a shim that hands the delay to the host as it got it
ShimDelay_Unclamped(h, d) == d

\* if (delay > max) delay = max: the delay the shim hands to the host's setTimeout
ShimDelay(h, d) ==
  IF d.kind = "number"
    THEN NumberDelay(IF h = "execute" THEN ClampDelay(d.n) ELSE VClampDelay(d.n))
    ELSE d

\* the host's setTimeout(callback, delay): a delay that is not a number
\* between 1 and 2^31 - 1 is taken as 1 ms
HostDelay(d) == IF d.kind = "number" /\ d.n >= 1 /\ d.n <= 2147483647 THEN d.n ELSE 1

\* the code evaluates an identifier: it is looked up in the sandbox object
Reference ==
  /\ at < Len(probe)
  /\ probe[at + 1].op = "ref"
  /\ LET n == probe[at + 1].name
     IN IF n \in SandboxKeys(handler)
          THEN reached' = reached \cup {n} /\ UNCHANGED <<refused, faults>>
          ELSE /\ refused' = refused \cup {n}
               /\ faults' = faults \cup {"ReferenceError"}
               /\ UNCHANGED reached
  /\ at' = at + 1
  /\ UNCHANGED <<now, host, timers, evars, vvars, nvars, restvars, handler, probe, scheduled>>

\* the code calls setTimeout(fn, delay): lines 1084-1102 and 1537-1544
CallTimerShim ==
  /\ at < Len(probe)
  /\ probe[at + 1].op = "setTimeout"
  /\ LET d == probe[at + 1].delay
     IN IF Comparable(d)
          THEN /\ scheduled' = Append(scheduled, [call |-> at + 1, asked |-> d,
                                                  passed |-> ShimDelay(handler, d),
                                                  used |-> HostDelay(ShimDelay(handler, d))])
               /\ UNCHANGED faults
          ELSE /\ faults' = faults \cup {"TypeError"}
               /\ UNCHANGED scheduled
  /\ reached' = reached \cup {"setTimeout"}
  /\ at' = at + 1
  /\ UNCHANGED <<now, host, timers, evars, vvars, nvars, restvars, handler, probe, refused>>

InitSandbox ==
  /\ InitState([r \in Reqs |-> NoRequest])
  /\ NoValidate
  /\ NoNormalize
  /\ NoRest
  /\ handler \in Handlers
  /\ probe \in Probes
  /\ at = 0
  /\ reached = {}
  /\ refused = {}
  /\ scheduled = <<>>
  /\ faults = {}

NextSandbox == Reference \/ CallTimerShim

SpecSandbox == InitSandbox /\ [][NextSandbox]_vars

\* C21: the only global bindings evaluated code reaches through the sandbox
\* object are console, setTimeout and, in the execute handler, fetch.
C21_OnlyShimsExposed ==
  /\ handler = "execute" => reached \subseteq {"console", "setTimeout", "fetch"}
  /\ handler = "validate" => reached \subseteq {"console", "setTimeout"}

\* code run by the validator reached console, and its lookup of a host global
\* raised a ReferenceError
C21_Witness ==
  /\ handler = "validate"
  /\ "console" \in reached
  /\ refused \cap {"process", "require", "fetch", "setInterval"} # {}

\* the smaller of a number and the maximum
Min(a, b) == IF a < b THEN a ELSE b

\* the timer call number i of the code got a host timer whose delay is min(d, max)
ScheduledClamped(i) ==
  \E k \in DOMAIN scheduled :
    /\ scheduled[k].call = i
    /\ scheduled[k].used <= MaxDelay(handler)
    /\ scheduled[k].asked.kind = "number" =>
         scheduled[k].passed = NumberDelay(Min(scheduled[k].asked.n, MaxDelay(handler)))

\* C23 as stated: for every delay value passed to the timer shim the callback
\* is scheduled, never rejected, with a delay of min(d, 5000) ms in the
\* execute handler and min(d, 1000) ms in the validator.
C23_EveryDelayScheduled ==
  \A i \in 1..at : probe[i].op = "setTimeout" => ScheduledClamped(i)

\* C23, amended: the statement holds for every delay value that can be
\* compared with a number (numbers, NaN, undefined); for a Symbol the shim
\* raises a TypeError to the caller and schedules nothing.
C23_ComparableDelayScheduled ==
  \A i \in 1..at :
    probe[i].op = "setTimeout" =>
      IF Comparable(probe[i].delay)
        THEN ScheduledClamped(i)
        ELSE "TypeError" \in faults /\ \A k \in DOMAIN scheduled : scheduled[k].call # i

\* a delay above the validator's maximum was scheduled at the maximum
C23_Witness ==
  /\ handler = "validate"
  /\ \E k \in DOMAIN scheduled :
       /\ scheduled[k].asked = NumberDelay(5001)
       /\ scheduled[k].used = TEST_MAX_DELAY

(***************************************************************************)
(* Further claims about the validate handler, checked under SpecValidate.  *)
(***************************************************************************)
\* C25: a validate response that carries results has exactly one TestResult
\* per test case, in the order of the test-case list; a test case whose run
\* throws or times out has pass = false and error = {name, message}, and the
\* test cases after it are still run.
C25_OneResultPerCase ==
  vresponse.status = 200 =>
    /\ Len(vresponse.results) = Len(testCases)
    /\ \A i \in DOMAIN vresponse.results :
         /\ vresponse.results[i].input = testCases[i].input
         /\ vresponse.results[i].expected = testCases[i].expected
         /\ decided[i].outcome.state = "rejected" =>
              /\ ~vresponse.results[i].pass
              /\ vresponse.results[i].error.name # None
              /\ vresponse.results[i].error.message # None

\* the run of the first test case timed out, the second test case, which
\* expects something else, was run all the same, and both are in the response
C25_Witness ==
  /\ vresponse.status = 200
  /\ Len(vresponse.results) = 2
  /\ decided[1].outcome.state = "rejected" /\ decided[1].outcome.v = ErrTimeout
  /\ vresponse.results[1].error.name # None
  /\ vresponse.results[1].expected # vresponse.results[2].expected
  /\ vresponse.results[2].error.name # None

\* expected is a string whose characters are those of the last entry of lg
EqualsLastLog(expected, lg) ==
  TypeOf(expected) = "string" /\ expected = StrVal(lg[Len(lg)])

\* C26: when the run of a test case had logged at least one entry when it was
\* compared, pass is true only if expected is a string equal, character for
\* character, to the text of the last log entry; whatever the run returned
\* and whatever the input, a completed run passes exactly in that case.
C26_LastLogDecides ==
  \A i \in DOMAIN results :
    decided[i].logs # <<>> =>
      /\ results[i].pass => EqualsLastLog(results[i].expected, decided[i].logs)
      /\ decided[i].outcome.state = "fulfilled" =>
           (results[i].pass <=> EqualsLastLog(results[i].expected, decided[i].logs))

\* the last log entry of a completed run is the text 2 and the test case
\* expecting the number 2 failed, next to a test case expecting something else
C26_Witness ==
  /\ Len(results) = 2
  /\ results[1].expected # results[2].expected
  /\ \E i \in DOMAIN results :
       /\ decided[i].outcome.state = "fulfilled"
       /\ decided[i].logs # <<>> /\ decided[i].logs[Len(decided[i].logs)] = "2"
       /\ results[i].expected = N2
       /\ ~results[i].pass

(***************************************************************************)
(* A request to either handler on a host where the constructor of vm.VM    *)
(* may throw for some of the runs.                                          *)
(***************************************************************************)
ConstructTestScripts ==
  { [ops |-> <<ConsoleOp("log", <<SFizz>>)>>,
     completion |-> MkCompletion("value", "fulfilled", SFizz)],
    [ops |-> <<TimeoutOp(600, <<SettleOp("resolve", SFizz)>>)>>,
     completion |-> MkCompletion("promise", "pending", Undefined)],
    [ops |-> <<LoopOp>>,
     completion |-> MkCompletion("value", "fulfilled", Undefined)],
    [ops |-> <<TimeoutOp(3000, <<ConsoleOp("log", <<N2>>)>>), ConsoleOp("log", <<SFizz>>)>>,
     completion |-> MkCompletion("value", "fulfilled", Undefined)] }

\* one execute request, whose construction may fail
InitConstructExecute ==
  /\ \E b \in ConcBodies : InitState([r \in Reqs |-> IF r = 1 THEN b ELSE NoRequest])
  /\ NoValidate
  /\ broken \in SUBSET {<<"execute", 1>>}

\* one validate request; the construction may fail for any of its test cases
InitConstructValidate ==
  /\ InitState([r \in Reqs |-> NoRequest])
  /\ vreq \in { [id |-> "1", code |-> c] : c \in ConstructTestScripts }
  /\ testCases \in TestCaseLists
  /\ vpc = "idle"
  /\ caseNo = 0
  /\ sandboxes = <<>>
  /\ results = <<>>
  /\ allPassed = TRUE
  /\ vresponse = NoValidateResponse
  /\ progress = <<>>
  /\ decided = <<>>
  /\ progressCalls = <<>>
  /\ broken \in SUBSET { <<"validate", i>> : i \in 1..MaxCases }

InitConstruct ==
  /\ InitConstructExecute \/ InitConstructValidate
  /\ NoNormalize
  /\ NoProbe
  /\ NoCallers
  /\ NoHome

NextConstruct ==
  \/ \E r \in Reqs : Receive(r)
  \/ \E r \in Reqs : ClearDone(r)
  \/ \E r \in Reqs : Resume(r)
  \/ FireTimer
  \/ AdvanceTime
  \/ DbInsert
  \/ DbFail
  \/ VReceive
  \/ VChallengeLoaded
  \/ VResume
  \/ VFireTimer
  \/ VWriteDone

SpecConstruct == InitConstruct /\ [][NextConstruct]_vars

\* C22: when the constructor of the interpreter throws for a run, no part
\* of the submitted source is evaluated for that run: no statement of it
\* makes a console call or creates a timer, and the run ends with the error
\* of the constructor, in the execute handler and in the validator.
C22_FailsClosed ==
  /\ \A r \in Reqs :
       (<<"execute", r>> \in broken /\ Started(r)) =>
         /\ calls[r] = <<>>
         /\ forwarded[r] = <<>> \/ \A k \in DOMAIN forwarded[r] : forwarded[r][k].type = "error"
         /\ \A k \in DOMAIN timers : timers[k].req # r
         /\ invoked = <<>>
         /\ raised[r] = ErrVM
         /\ Responded(r) =>
              /\ response[r].error.name = "VMError"
              /\ response[r].result = Null
              /\ response[r].logs = <<>> /\ response[r].errors = <<>>
              /\ response[r].warnings = <<>> /\ response[r].infos = <<>>
  /\ \A i \in DOMAIN sandboxes :
       (<<"validate", i>> \in broken /\ vpc # "absent") =>
         /\ sandboxes[i].calls = <<>>
         /\ sandboxes[i].logs = <<>>
         /\ \A k \in DOMAIN timers : timers[k].req # i
         /\ i \in DOMAIN results =>
              ~results[i].pass /\ results[i].error.name = "VMError"

\* the construction failed for a request whose source has statements and
\* whose entries would be persisted, and the response reports the failure
C22_Witness ==
  /\ <<"execute", 1>> \in broken
  /\ Responded(1)
  /\ Len(req[1].code.ops) >= 2
  /\ Truthy(req[1].snippetId)
  /\ response[1].error.name = "VMError"

(***************************************************************************)
(* One execute request whose body carries no snippetId, the id 0, or the   *)
(* id of a stored snippet.                                                  *)
(***************************************************************************)
\* req.body.snippetId: absent, 0, 7
SuppliedIds == {Undefined, "0", "7"}

IdBodies == { [code |-> c, snippetId |-> id] : c \in ConcScripts, id \in SuppliedIds }

InitIds ==
  /\ \E b \in IdBodies : InitState([r \in Reqs |-> IF r = 1 THEN b ELSE NoRequest])
  /\ NoValidate
  /\ NoOthers

SpecIds == InitIds /\ [][Next]_vars

\* a snippetId came with the request
Supplied(r) == req[r].snippetId # Undefined

\* C24: the execute handler makes persistence calls for a request if and
\* only if a snippetId was supplied with it, whatever its value; a request
\* without one leaves the store as it was.
C24_PersistenceIffSupplied ==
  \A r \in Reqs :
    /\ pc[r] = "clearing" => Supplied(r)
    /\ forwarded[r] # <<>> => Supplied(r)
    /\ (Responded(r) /\ Supplied(r)) => forwarded[r] # <<>>
    /\ (pc[r] # "absent" /\ ~Supplied(r)) => store = <<>> /\ inflight = <<>>

(***************************************************************************)
(* The two sinks of the console shims of the execute handler, under Spec.  *)
(***************************************************************************)
\* the sequence of the result of request r that calls of kind k feed
ResponseArray(r, k) ==
  CASE ArrayOf(k) = "log" -> response[r].logs
    [] ArrayOf(k) = "warn" -> response[r].warnings
    [] ArrayOf(k) = "error" -> response[r].errors
    [] ArrayOf(k) = "info" -> response[r].infos

\* C29: for an execute request with a snippetId, every entry a console-shim
\* call of the run forwards to the store is also, with the same kind and
\* content, in the result returned for the run.
C29_SinksAgree ==
  \A r \in Reqs :
    (Responded(r) /\ Truthy(req[r].snippetId)) =>
      \A k \in DOMAIN calls[r] :
        /\ \E j \in DOMAIN forwarded[r] :
             /\ forwarded[r][j].type = ConsoleType(calls[r][k].kind)
             /\ forwarded[r][j].content = ConsoleContent(calls[r][k].kind, calls[r][k].args)
        /\ \E j \in DOMAIN ResponseArray(r, calls[r][k].kind) :
             ResponseArray(r, calls[r][k].kind)[j] =
               ConsoleContent(calls[r][k].kind, calls[r][k].args)

(***************************************************************************)
(* The persisted transcript of a snippet under two execute requests,       *)
(* checked under SpecConc.                                                 *)
(***************************************************************************)
\* request r is the run of its snippet that started last
LatestRun(r) ==
  \A q \in Reqs \ {r} :
    (pc[q] # "absent" /\ req[q].snippetId = req[r].snippetId) =>
      Started(q) /\ startTime[q] < startTime[r]

\* C28: once an execute request with snippetId c has returned, the stored
\* transcript of c holds only entries that request produced; entries of
\* earlier runs with the same c, those of their pending timer callbacks
\* included, are not in it.
C28_TranscriptOnlyOwnEntries ==
  \A r \in Reqs :
    (Responded(r) /\ Truthy(req[r].snippetId) /\ LatestRun(r)) =>
      \A k \in DOMAIN store :
        store[k].snippetId = req[r].snippetId =>
          \E j \in DOMAIN forwarded[r] :
            /\ forwarded[r][j].type = store[k].type
            /\ forwarded[r][j].content = store[k].content

(***************************************************************************)
(* Concurrent calls of PostgresStorage.createOrUpdateChallengeProgress,    *)
(* made by validate requests whose tests all passed and by                 *)
(* POST /api/challenges/:id/progress.  A call awaits the read, then awaits *)
(* the update or the insert; other calls run in between.                   *)
(***************************************************************************)
ChallengeIds == {"1", "2"}

\* the progress argument of a call: validate always passes completed: true
ProgressArgs ==
  { [by |-> "validate", challengeId |-> ch, userCode |-> "a", completed |-> TRUE] :
      ch \in ChallengeIds }
    \cup { [by |-> "progress", challengeId |-> ch, userCode |-> "a", completed |-> done] :
             ch \in ChallengeIds, done \in BOOLEAN }

\* a call that has not been made yet
NewCall(a) == [pc |-> "idle", arg |-> a, existing |-> 0]

\* the row a call writes
RowOf(a) == [challengeId |-> a.challengeId, userCode |-> a.userCode, completed |-> a.completed]

\* db.query.userChallengeProgress.findFirst({where: eq(challengeId, ...)}):
\* the id of a row of the challenge, 0 when there is none
FindFirst(rows, ch) ==
  IF \E k \in DOMAIN rows : rows[k].challengeId = ch
    THEN CHOOSE k \in DOMAIN rows :
           /\ rows[k].challengeId = ch
           /\ \A j \in DOMAIN rows : rows[j].challengeId = ch => k <= j
    ELSE 0

\* what a createOrUpdateChallengeProgress call leaves alone
OutsideProgress ==
  UNCHANGED <<now, host, timers, evars, nvars, sbvars, broken, hvars, vreq, testCases,
              vpc, caseNo, sandboxes, results, allPassed, vresponse, decided,
              progressCalls>>

\* the route handler calls storage.createOrUpdateChallengeProgress(progress):
\* the read is issued
CallUpsert(c) ==
  /\ callers[c].pc = "idle"
  /\ callers' = [callers EXCEPT ![c].pc = "reading"]
  /\ UNCHANGED progress
  /\ OutsideProgress

\* const existingProgress = await this.getChallengeProgress(...) has settled;
\* the update or the insert is issued
ReadDone(c) ==
  /\ callers[c].pc = "reading"
  /\ \E ok \in BOOLEAN :
       callers' = IF ok
                    THEN [callers EXCEPT ![c].pc = "writing",
                                         ![c].existing = FindFirst(progress, callers[c].arg.challengeId)]
                    ELSE [callers EXCEPT ![c].pc = "failed"]
  /\ UNCHANGED progress
  /\ OutsideProgress

\* db.update(...).where(eq(id, existingProgress.id)) or db.insert(...) has run
WriteDone(c) ==
  /\ callers[c].pc = "writing"
  /\ \E ok \in BOOLEAN :
       IF ok
         THEN /\ progress' = IF callers[c].existing # 0
                               THEN [progress EXCEPT ![callers[c].existing] = RowOf(callers[c].arg)]
                               ELSE Append(progress, RowOf(callers[c].arg))
              /\ callers' = [callers EXCEPT ![c].pc = "done"]
         ELSE /\ callers' = [callers EXCEPT ![c].pc = "failed"]
              /\ UNCHANGED progress
  /\ OutsideProgress

\* the table is empty or holds the row of an earlier call; the calls to come
\* are any MaxCallers calls
InitProgress ==
  /\ InitState([r \in Reqs |-> NoRequest])
  /\ vreq = [id |-> None, code |-> NotString]
  /\ testCases = <<>>
  /\ vpc = "absent"
  /\ caseNo = 0
  /\ sandboxes = <<>>
  /\ results = <<>>
  /\ allPassed = TRUE
  /\ vresponse = NoValidateResponse
  /\ decided = <<>>
  /\ progressCalls = <<>>
  /\ NoNormalize
  /\ NoProbe
  /\ NoBroken
  /\ NoHome
  /\ progress \in {<<>>} \cup { <<RowOf(a)>> : a \in ProgressArgs }
  /\ callers \in [1..MaxCallers -> { NewCall(a) : a \in ProgressArgs }]

NextProgress ==
  \/ \E c \in 1..MaxCallers : CallUpsert(c)
  \/ \E c \in 1..MaxCallers : ReadDone(c)
  \/ \E c \in 1..MaxCallers : WriteDone(c)

SpecProgress == InitProgress /\ [][NextProgress]_vars

\* C27: after any interleaving of createOrUpdateChallengeProgress calls the
\* table holds at most one row per challengeId.
C27_OneRecordPerChallenge ==
  \A ch \in ChallengeIds :
    Cardinality({ k \in DOMAIN progress : progress[k].challengeId = ch }) <= 1

(***************************************************************************)
(* The Home page: the editor, its auto-run debounce, Ctrl+Enter, the Run   *)
(* button, and runCode, whose requests are answered in any order (the      *)
(* server runs them concurrently, each for up to its timeout).             *)
(***************************************************************************)
\* runCode up to its await: setIsExecuting(true), setConsoleOutput([started]),
\* apiRequest("POST", "/api/execute", {code, snippetId}) with the code its closure holds
runCode(c) ==
  /\ Len(runs) < MaxRuns
  /\ runs' = Append(runs, [code |-> c, state |-> "inflight"])
  /\ isExecuting' = TRUE
  /\ consoleOutput' = [run |-> Len(runs) + 1, text |-> "// Code execution started"]

\* what the Home page leaves alone
OutsideHome == UNCHANGED <<now, host, timers, evars, vvars, nvars, sbvars, broken, callers>>

\* handleEditorChange: setCode(value), and the debounce timer is restarted with
\* a callback that calls the onRun of the render before the change
EditorChange ==
  /\ editorCode < MaxEdits
  /\ editorCode' = editorCode + 1
  /\ autoRunTimer' = [pending |-> TRUE, code |-> editorCode]
  /\ UNCHANGED <<consoleOutput, isExecuting, runs>>
  /\ OutsideHome

\* one second after the last change the debounce timer fires: onRun()
AutoRun ==
  /\ autoRunTimer.pending
  /\ runCode(autoRunTimer.code)
  /\ autoRunTimer' = [autoRunTimer EXCEPT !.pending = FALSE]
  /\ UNCHANGED editorCode
  /\ OutsideHome

\* Ctrl+Enter: the command registered in handleEditorDidMount calls the onRun
\* of the first render
CtrlEnter ==
  /\ runCode(0)
  /\ UNCHANGED <<editorCode, autoRunTimer>>
  /\ OutsideHome

\* the Run button, disabled while isExecuting
ClickRun ==
  /\ ~isExecuting
  /\ runCode(editorCode)
  /\ UNCHANGED <<editorCode, autoRunTimer>>
  /\ OutsideHome

\* the request of invocation k is answered, or fails: the rest of runCode
ResponseArrives(k) ==
  /\ k \in DOMAIN runs
  /\ runs[k].state = "inflight"
  /\ \E ok \in BOOLEAN :
       /\ consoleOutput' = [run |-> k, text |-> IF ok THEN "// Execution completed"
                                                     ELSE "// Execution failed"]
       /\ runs' = [runs EXCEPT ![k].state = IF ok THEN "answered" ELSE "failed"]
  /\ isExecuting' = FALSE
  /\ UNCHANGED <<editorCode, autoRunTimer>>
  /\ OutsideHome

InitHome ==
  /\ InitState([r \in Reqs |-> NoRequest])
  /\ NoValidate
  /\ NoNormalize
  /\ NoProbe
  /\ NoBroken
  /\ NoCallers
  /\ NoHome

NextHome ==
  \/ EditorChange
  \/ AutoRun
  \/ CtrlEnter
  \/ ClickRun
  \/ \E k \in 1..MaxRuns : ResponseArrives(k)

SpecHome == InitHome /\ [][NextHome]_vars

\* C30: when every request of the Home page has finished, the console
\* output displayed is that of the run started last.
C30_LatestRunDisplayed ==
  (runs # <<>> /\ \A k \in DOMAIN runs : runs[k].state # "inflight") =>
    consoleOutput.run = Len(runs)

=============================================================================
